---- MODULE Spec2Model ----
(***************************************************************************)
(* Model of the historical-data ingestion pipeline of the trading bot:     *)
(*   trading_bot/data/database.py            (Database)                    *)
(*   trading_bot/scripts/progress_tracker.py (ProgressTracker)             *)
(*   trading_bot/scripts/collect_historical_data.py (the two collectors)   *)
(*                                                                         *)
(* The module holds several specifications over one set of variables; a   *)
(* specification leaves the variables of the other parts unchanged.        *)
(*   SpecDb   : save_price_data_to_coin_table / get_missing_data_period    *)
(*   SpecPage : get_historical_data / get_historical_data_batch, one unit  *)
(*   SpecRate : the thread pool of collect_all_data_for_symbol_parallel    *)
(*   SpecGap  : collect_missing_data after a collection of the unit       *)
(*   SpecRun  : collect_all_coins_all_data with the ProgressTracker, over  *)
(*              several processes, kills and restarts                     *)
(***************************************************************************)
EXTENDS Integers, Sequences, FiniteSets, TLC

VARIABLES
    tables,     \* SQLite: physical table -> set of rows [timestamp, value]
    status,     \* SQLite: rows of data_collection_status
    lastVals,   \* history: table -> timestamp -> values the latest committed store gave it
    dbop,       \* the last Database call and what it returned
    held,       \* provider: open times of the candles it holds for the fetched unit
    pg,         \* one call of get_historical_data / get_historical_data_batch and its caller
    thr,        \* thread of the pool -> position in get_historical_data_batch
    win,        \* the one-second window in which requests are counted
    progress,   \* ProgressTracker.progress of the running process
    file,       \* the progress file on disk
    run,        \* the process: position in collect_all_coins_all_data and its locals
    hist,       \* history: what finished saves recorded, what stores committed
    gap,        \* the clock and the last call of collect_missing_data
    pool,       \* the ThreadPoolExecutor of collect_all_data_for_symbol_parallel
    ck,         \* two collector processes that share one progress file
    lim         \* coroutines of one event loop inside _rate_limit

dbVars == <<tables, status, lastVals, dbop>>
pageVars == <<held, pg>>

rateVars == <<thr, win>>

runVars == <<progress, file, run, hist>>

gapVars == <<gap>>

poolVars == <<pool>>

ckVars == <<ck>>

limVars == <<lim>>

vars == <<tables, status, lastVals, dbop, held, pg, thr, win, progress, file, run, hist, gap,
          pool, ck, lim>>

(***************************************************************************)
(* Bounds of the model.                                                    *)
(***************************************************************************)
MaxTs == 1          \* candle timestamps are 0..MaxTs
MaxBatch == 2       \* a batch handed to one store holds at most MaxBatch records
MsPerDay == 1       \* length of a day in the model's time unit
MaxClockSkew == 1   \* the second clock read is at most this much after the first
Limit == 2          \* records per provider call (the code asks for 1000)
IntervalMs == 2     \* length of one candle of the fetched resolution, in time units
Workers == 2         \* threads of the pool that fetch concurrently (the code: 8)
MaxWindows == 6      \* windows one thread's range is cut into, at most
MinLatency == 1      \* ticks a provider request is in flight, at least
MaxRuns == 2          \* processes started one after another, at most
MaxCandles == 5     \* the provider holds candles at up to MaxCandles open times
MaxPoolUnits == 3    \* intervals submitted to the pool for one symbol (the code: 15)
MaxRequests == 2     \* requests one unit's fetch issues, at most
MaxCoroutines == 2   \* coroutines of one event loop in get_historical_data_async

(***************************************************************************)
(* Program constants.                                                      *)
(***************************************************************************)
HistoryDays == 1095
max_requests_per_second == 10   \* self.max_requests_per_second
MinGapMs == 60000               \* if end_time - start_time < 60000
BatchSleepMs == 50              \* time.sleep(0.05) of get_historical_data_batch

Timestamps == 0..MaxTs
\* one symbol stands for the tuple (open, high, low, close, volume) of a candle
Values == {"a", "b"}
Candles == [timestamp : Timestamps, value : Values]

RECURSIVE SeqsUpTo(_, _)
SeqsUpTo(S, n) ==
    IF n = 0 THEN {<<>>}
    ELSE LET shorter == SeqsUpTo(S, n - 1)
         IN shorter \cup {Append(s, x) : s \in {q \in shorter : Len(q) = n - 1}, x \in S}

\* the batches of the model: any order, repeated timestamps allowed; the records of
\* one batch carry the same value, two batches may differ in it
Batches ==
    {[k \in DOMAIN ts |-> [timestamp |-> ts[k], value |-> v]] :
        ts \in SeqsUpTo(Timestamps, MaxBatch), v \in Values}

(***************************************************************************)
(* Database.init_database: the tables that exist.  The collectors name the *)
(* monthly interval '1M', init_database creates '<coin>_1month'.           *)
(***************************************************************************)
coins == <<"BTCUSDT", "ETHUSDT">>
dbIntervals == {"1m", "1h", "1month"}
CreatedTables == {<<c, i>> : c \in {coins[k] : k \in DOMAIN coins}, i \in dbIntervals}

\* table_name = f"{symbol}_{interval}"
TableName(symbol, interval) == <<symbol, interval>>

\* SQLite resolves table names without regard to ASCII case: X_1M is X_1m
Lower(interval) == IF interval = "1M" THEN "1m" ELSE interval
Resolve(name) == <<name[1], Lower(name[2])>>

(***************************************************************************)
(* INSERT OR REPLACE INTO <table> ... on a table with UNIQUE(timestamp):   *)
(* the conflicting row is deleted, the new row is inserted.                *)
(***************************************************************************)
InsertOrIgnore(rows, item) ==
    IF \E r \in rows : r.timestamp = item.timestamp THEN rows
    ELSE rows \cup {[timestamp |-> item.timestamp, value |-> item.value]}

InsertOrReplace(rows, item) ==
    {r \in rows : r.timestamp # item.timestamp}
        \cup {[timestamp |-> item.timestamp, value |-> item.value]}

RECURSIVE InsertAll(_, _)
InsertAll(rows, data) ==
    IF data = <<>> THEN rows
    ELSE InsertAll(InsertOrReplace(rows, Head(data)), Tail(data))

\* last_timestamp = data[-1]['timestamp']
LastTimestampCursor(data) == data[Len(data)].timestamp + 1

LastTimestamp(data) == data[Len(data)].timestamp

\* INSERT OR REPLACE INTO data_collection_status, UNIQUE(symbol, interval)
\* (TEXT columns compare by BINARY collation: '1M' and '1m' are two keys)
UpsertStatus(rows, symbol, interval, ts) ==
    {r \in rows : ~(r.symbol = symbol /\ r.interval = interval)}
        \cup {[symbol |-> symbol, interval |-> interval, last_collected_timestamp |-> ts]}

\* (a connection that would keep the statements executed before the exception)
KeepPartial(before, work) == work

\* the connection context manager rolls the transaction back on an exception
Rollback(before, work) == before

(***************************************************************************)
(* Database.save_price_data_to_coin_table as a function of the database.   *)
(* fault = 0: every statement succeeds.  fault = k > 0: the k-th statement *)
(* of the transaction raises (k <= Len(data): the insert of record k,      *)
(* k = Len(data) + 1: the status update / commit).  A table that does not  *)
(* exist makes the first statement raise.                                  *)
(***************************************************************************)
SaveResult(db, symbol, interval, data, fault) ==
    LET t == Resolve(TableName(symbol, interval))
        missing == t \notin CreatedTables
        bad == IF missing THEN 1 ELSE fault
        n == IF bad = 0 THEN Len(data) ELSE bad - 1
        done == SubSeq(data, 1, IF n > Len(data) THEN Len(data) ELSE n)
        work == [tables |-> IF missing THEN db.tables
                            ELSE [db.tables EXCEPT ![t] = InsertAll(@, done)],
                 status |-> IF bad = 0 /\ data # <<>>
                            THEN UpsertStatus(db.status, symbol, interval, LastTimestamp(data))
                            ELSE db.status]
    IN IF bad = 0 THEN [db |-> work, raised |-> FALSE]
       ELSE [db |-> Rollback(db, work), raised |-> TRUE]

(***************************************************************************)
(* Database.get_last_collected_timestamp: result[0] if result else None.   *)
(* None is [some |-> FALSE].                                               *)
(***************************************************************************)
None == [some |-> FALSE, val |-> 0]
Some(x) == [some |-> TRUE, val |-> x]

get_last_collected_timestamp(st, symbol, interval) ==
    LET hit == {r \in st : r.symbol = symbol /\ r.interval = interval}
    IN IF hit = {} THEN None
       ELSE Some((CHOOSE r \in hit : TRUE).last_collected_timestamp)

\* Python truth value of an Optional[int]: None and 0 are false
Truthy(x) == x.some /\ x.val # 0

(***************************************************************************)
(* Database.get_missing_data_period.  now1 is the clock read of line 396,  *)
(* now2 the read of line 406 (datetime.now() is called again).            *)
(***************************************************************************)
HistoryWindow == HistoryDays * MsPerDay

get_missing_data_period(st, symbol, interval, now1, now2) ==
    LET last_timestamp == get_last_collected_timestamp(st, symbol, interval)
        current_time == now1
    IN IF Truthy(last_timestamp)
       THEN [start_time |-> last_timestamp.val + 1, end_time |-> current_time]
       ELSE [start_time |-> now2 - HistoryWindow, end_time |-> current_time]

(***************************************************************************)
(* SpecDb: arbitrary calls of the two Database operations.                 *)
(***************************************************************************)
DbUnits == {<<"BTCUSDT", "1m">>, <<"BTCUSDT", "1M">>}
Clock == (HistoryWindow + MaxTs + 1)..(HistoryWindow + MaxTs + 2)

NoOp == [kind |-> "none", unit |-> <<"", "">>, raised |-> FALSE, replaced |-> FALSE,
         partial |-> FALSE, max |-> -1, kept |-> FALSE,
         last |-> None, now1 |-> 0, now2 |-> 0, start_time |-> 0, end_time |-> 0]

PageIdle == [mode |-> "none", pc |-> "idle", start_time |-> 0, end_time |-> 0,
             current_start |-> 0, all_data |-> <<>>, calls |-> 0, data_calls |-> 0,
             asked |-> 0, raised |-> 0, df |-> <<>>, saved |-> FALSE]

\* no gap collection is modelled
GapIdle == gap = <<>>

PoolIdle == pool = <<>>

CkIdle == ck = <<>>

LimIdle == lim = <<>>

\* no collection process exists
RunIdle == progress = <<>> /\ file = <<>> /\ run = <<>> /\ hist = <<>>

\* no request window is being measured
WinIdle == [open |-> FALSE, age |-> 0, count |-> 0]

DbInit ==
    /\ held = {}
    /\ pg = PageIdle
    /\ thr = <<>>
    /\ win = WinIdle
    /\ RunIdle
    /\ GapIdle
    /\ PoolIdle
    /\ CkIdle
    /\ LimIdle
    /\ tables = [t \in CreatedTables |-> {}]
    /\ status = {}
    /\ lastVals = [t \in CreatedTables |-> [ts \in Timestamps |-> {}]]
    /\ dbop = NoOp

\* the largest member of a set of timestamps, -1 for the empty set
MaxOf(S) == IF S = {} THEN -1 ELSE CHOOSE x \in S : \A y \in S : y <= x

\* the values the batch gives timestamp ts
ValuesIn(data, ts) == {data[k].value : k \in {j \in DOMAIN data : data[j].timestamp = ts}}

Store(symbol, interval, data, fault) ==
    LET res == SaveResult([tables |-> tables, status |-> status], symbol, interval, data, fault)
        t == Resolve(TableName(symbol, interval))
    IN /\ tables' = res.db.tables
       /\ status' = res.db.status
       /\ lastVals' = IF res.raised THEN lastVals
                      ELSE [lastVals EXCEPT ![t] =
                              [ts \in Timestamps |->
                                 IF ValuesIn(data, ts) # {} THEN ValuesIn(data, ts) ELSE @[ts]]]
       /\ UNCHANGED <<pageVars, rateVars, runVars, gapVars, poolVars, ckVars, limVars>>
       /\ dbop' = [NoOp EXCEPT !.kind = "store", !.unit = <<symbol, interval>>,
                               !.raised = res.raised,
                               !.partial = res.raised /\ fault > 1,
                               !.max = MaxOf({data[k].timestamp : k \in DOMAIN data}),
                               !.kept = (res.db.tables = tables /\ res.db.status = status),
                               !.replaced = ~res.raised /\
                                   \E r \in tables[t] : /\ ValuesIn(data, r.timestamp) # {}
                                                        /\ r.value \notin ValuesIn(data, r.timestamp)]

DbStore ==
    \E u \in DbUnits, data \in Batches : Store(u[1], u[2], data, 0)

DbStoreRaises ==
    \E u \in DbUnits, data \in Batches :
        \E fault \in 1..(Len(data) + 1) : Store(u[1], u[2], data, fault)

DbMissingPeriod ==
    \E u \in DbUnits, now1 \in Clock, skew \in 0..MaxClockSkew :
        LET p == get_missing_data_period(status, u[1], u[2], now1, now1 + skew)
        IN /\ dbop' = [NoOp EXCEPT !.kind = "gap", !.unit = u,
                                   !.last = get_last_collected_timestamp(status, u[1], u[2]),
                                   !.now1 = now1, !.now2 = now1 + skew,
                                   !.start_time = p.start_time, !.end_time = p.end_time]
           /\ UNCHANGED <<tables, status, lastVals>>
           /\ UNCHANGED <<pageVars, rateVars, runVars, gapVars, poolVars, ckVars, limVars>>

DbNext == DbStore \/ DbStoreRaises \/ DbMissingPeriod

SpecDb == DbInit /\ [][DbNext]_vars

(***************************************************************************)
(* C2  Idempotent upsert storage: after any sequence of stores, a table    *)
(* holds exactly one row for each timestamp ever stored in it and no other *)
(* row, and the row carries the value given by the latest committed store  *)
(* that contained the timestamp (so storing a batch again changes neither  *)
(* the row count nor the values).                                          *)
(***************************************************************************)
C2_IdempotentUpsert ==
    \A t \in CreatedTables : \A ts \in Timestamps :
        LET rows == {r \in tables[t] : r.timestamp = ts}
        IN IF lastVals[t][ts] = {} THEN rows = {}
           ELSE /\ Cardinality(rows) = 1
                /\ \A r \in rows : r.value \in lastVals[t][ts]

\* a committed store has overwritten a row that held another value
C2_Witness ==
    /\ dbop.kind = "store" /\ ~dbop.raised /\ dbop.replaced
    /\ \E t \in CreatedTables : Cardinality(tables[t]) = MaxTs + 1

(***************************************************************************)
(* C4  Status is never ahead of data: a data_collection_status row with    *)
(* value T for a unit implies a candle row with timestamp T in the table   *)
(* the unit's stores go to, in every state, also after a store that raised *)
(* part-way.                                                               *)
(***************************************************************************)
C4_StatusNotAheadOfData ==
    \A s \in status :
        \E r \in tables[Resolve(TableName(s.symbol, s.interval))] :
            r.timestamp = s.last_collected_timestamp

\* a store raised after some of its inserts had run, for a unit that has a status row
C4_Witness ==
    /\ dbop.kind = "store" /\ dbop.raised /\ dbop.partial
    /\ \E s \in status : <<s.symbol, s.interval>> = dbop.unit

(***************************************************************************)
(* C6  Gap detection result: get_missing_data_period returns               *)
(* {start_time: T + 1, end_time: now} when the unit has a stored           *)
(* last_collected_timestamp T, for every stored T, and                     *)
(* {start_time: now - 1095 days, end_time: now} when it has no status row. *)
(* (now is the clock read that the respective field is computed from.)     *)
(***************************************************************************)
C6_GapResult ==
    dbop.kind = "gap" =>
        /\ dbop.end_time = dbop.now1
        /\ IF dbop.last.some
           THEN dbop.start_time = dbop.last.val + 1
           ELSE dbop.start_time = dbop.now2 - HistoryWindow

(***************************************************************************)
(* C13  Status value after a store: a successful store of a non-empty      *)
(* batch sets the unit's last_collected_timestamp to the maximum timestamp *)
(* occurring in the batch, whatever the order of its records; a successful *)
(* store of an empty batch leaves rows and status unchanged.               *)
(***************************************************************************)
C13_StatusIsBatchMaximum ==
    (dbop.kind = "store" /\ ~dbop.raised) =>
        IF dbop.max >= 0
        THEN get_last_collected_timestamp(status, dbop.unit[1], dbop.unit[2]) = Some(dbop.max)
        ELSE dbop.kept

(***************************************************************************)
(* The provider (GET /api/v3/klines): the candles with                     *)
(* startTime <= open time <= endTime, ascending, at most limit of them.    *)
(* A candle is [timestamp (open time), close_time].                        *)
(***************************************************************************)
RECURSIVE SortAsc(_)
SortAsc(S) ==
    IF S = {} THEN <<>>
    ELSE LET m == CHOOSE x \in S : \A y \in S : x <= y
         IN <<m>> \o SortAsc(S \ {m})

Take(s, n) == SubSeq(s, 1, IF Len(s) < n THEN Len(s) ELSE n)

Kline(open) == [timestamp |-> open, close_time |-> open + IntervalMs - 1]

Klines(h, startTime, endTime, limit) ==
    LET opens == Take(SortAsc({t \in h : startTime <= t /\ t <= endTime}), limit)
    IN [k \in DOMAIN opens |-> Kline(opens[k])]

GridTimes == {k * IntervalMs : k \in 0..(MaxCandles - 1)}
Horizon == MaxCandles * IntervalMs

\* 'limit': 1000
RequestLimit == Limit

\* _calculate_batch_size(interval): 1000 candles of the interval, in time units
calculate_batch_size == Limit * IntervalMs

Min(a, b) == IF a < b THEN a ELSE b

\* get_historical_data: current_start = int(last_candle[6]) + 1
NextStartSkipping(data) == data[Len(data)].close_time + 1 + IntervalMs

NextStartAfterClose(data) == data[Len(data)].close_time + 1

\* (a cursor that would be set to the last open time itself)
NextStartAtOpen(data) == data[Len(data)].timestamp

\* get_historical_data_batch: current_start = data[-1][0] + 1
NextStartAfterOpen(data) == data[Len(data)].timestamp + 1

\* pd.concat(all_data).drop_duplicates(subset=['timestamp']).sort_values('timestamp')
Combined(all_data) == SortAsc({all_data[k] : k \in DOMAIN all_data})

Opens(data) == [k \in DOMAIN data |-> data[k].timestamp]

\* data_list of the callers: one record per row of the returned frame.  Open times are
\* whole seconds, for which int(row['timestamp'].timestamp() * 1000) gives back the
\* provider's millisecond value.
DataList(df) == [k \in DOMAIN df |-> [timestamp |-> df[k], value |-> "a"]]

PageUnit == <<"BTCUSDT", "1m">>

PageInit ==
    /\ tables = [t \in CreatedTables |-> {}]
    /\ status = {}
    /\ lastVals = [t \in CreatedTables |-> [ts \in Timestamps |-> {}]]
    /\ dbop = NoOp
    /\ thr = <<>>
    /\ win = WinIdle
    /\ RunIdle
    /\ GapIdle
    /\ PoolIdle
    /\ CkIdle
    /\ LimIdle
    /\ held \in SUBSET GridTimes
    /\ \E m \in {"plain", "batch"}, s \in 0..1, e \in 1..Horizon :
          /\ s < e
          /\ pg = [PageIdle EXCEPT !.mode = m, !.pc = "loop", !.start_time = s,
                                   !.end_time = e, !.current_start = s]

\* get_historical_data, one iteration of the loop whose request is answered
PlainRequest ==
    /\ pg.mode = "plain" /\ pg.pc = "loop" /\ pg.current_start < pg.end_time
    /\ LET data == Klines(held, pg.current_start, pg.end_time, RequestLimit)
           next == IF data = <<>> THEN pg.current_start ELSE NextStartAfterClose(data)
           all == pg.all_data \o Opens(data)
           exit == data = <<>> \/ ~(next < pg.end_time)
       IN pg' = [pg EXCEPT !.calls = @ + 1,
                           !.data_calls = IF data = <<>> THEN @ ELSE @ + 1,
                           !.asked = IF RequestLimit > @ THEN RequestLimit ELSE @,
                           !.all_data = all,
                           !.current_start = next,
                           !.pc = IF exit THEN "returned" ELSE "loop",
                           !.df = IF exit THEN all ELSE @]
    /\ UNCHANGED <<held, dbVars, rateVars, runVars, gapVars, poolVars, ckVars, limVars>>

\* get_historical_data, the request raises: except Exception -> return pd.DataFrame()
PlainRequestRaises ==
    /\ pg.mode = "plain" /\ pg.pc = "loop" /\ pg.current_start < pg.end_time
    /\ pg' = [pg EXCEPT !.calls = @ + 1,
                        !.asked = IF RequestLimit > @ THEN RequestLimit ELSE @,
                        !.raised = @ + 1,
                        !.pc = "returned",
                        !.df = <<>>]
    /\ UNCHANGED <<held, dbVars, rateVars, runVars, gapVars, poolVars, ckVars, limVars>>

\* get_historical_data_batch, one iteration of the loop whose request is answered
BatchRequest ==
    /\ pg.mode = "batch" /\ pg.pc = "loop" /\ pg.current_start < pg.end_time
    /\ LET current_end == Min(pg.current_start + calculate_batch_size, pg.end_time)
           data == Klines(held, pg.current_start, current_end, RequestLimit)
           next == IF data # <<>> THEN NextStartAfterOpen(data) ELSE current_end
           all == pg.all_data \o Opens(data)
           exit == ~(next < pg.end_time)
       IN pg' = [pg EXCEPT !.calls = @ + 1,
                           !.data_calls = IF data = <<>> THEN @ ELSE @ + 1,
                           !.asked = IF RequestLimit > @ THEN RequestLimit ELSE @,
                           !.all_data = all,
                           !.current_start = next,
                           !.pc = IF exit THEN "returned" ELSE "loop",
                           !.df = IF exit THEN Combined(all) ELSE @]
    /\ UNCHANGED <<held, dbVars, rateVars, runVars, gapVars, poolVars, ckVars, limVars>>

\* get_historical_data_batch, the request raises: current_start = current_end; continue
BatchRequestRaises ==
    /\ pg.mode = "batch" /\ pg.pc = "loop" /\ pg.current_start < pg.end_time
    /\ LET current_end == Min(pg.current_start + calculate_batch_size, pg.end_time)
           exit == ~(current_end < pg.end_time)
       IN pg' = [pg EXCEPT !.calls = @ + 1,
                           !.asked = IF RequestLimit > @ THEN RequestLimit ELSE @,
                           !.raised = @ + 1,
                           !.current_start = current_end,
                           !.pc = IF exit THEN "returned" ELSE "loop",
                           !.df = IF exit THEN Combined(pg.all_data) ELSE @]
    /\ UNCHANGED <<held, dbVars, rateVars, runVars, gapVars, poolVars, ckVars, limVars>>

\* the callers: if not df.empty: save_price_data_to_coin_table(symbol, interval, data_list)
PageStore ==
    /\ pg.pc = "returned"
    /\ LET res == SaveResult([tables |-> tables, status |-> status],
                             PageUnit[1], PageUnit[2], DataList(pg.df), 0)
       IN IF pg.df # <<>>
          THEN /\ tables' = res.db.tables
               /\ status' = res.db.status
               /\ pg' = [pg EXCEPT !.pc = "stored", !.saved = TRUE]
          ELSE /\ UNCHANGED <<tables, status>>
               /\ pg' = [pg EXCEPT !.pc = "stored"]
    /\ UNCHANGED <<held, lastVals, dbop, rateVars, runVars, gapVars, poolVars, ckVars, limVars>>

PageNext ==
    PlainRequest \/ PlainRequestRaises \/ BatchRequest \/ BatchRequestRaises \/ PageStore

SpecPage == PageInit /\ [][PageNext]_vars

\* the candles the provider holds in [start_time, end_time]
InRange == {t \in held : pg.start_time <= t /\ t <= pg.end_time}

CeilDiv(a, b) == (a + b - 1) \div b

Returned == pg.pc \in {"returned", "stored"}

StatusIsLastOfRange ==
    IF InRange = {} THEN status = {} /\ ~pg.saved
    ELSE status = {[symbol |-> PageUnit[1], interval |-> PageUnit[2],
                    last_collected_timestamp |-> CHOOSE t \in InRange : \A x \in InRange : x <= t]}

C8_AllOrFail ==
    (pg.mode = "batch" /\ Returned) => pg.df = SortAsc(InRange)


(***************************************************************************)
(* ProgressTracker.  The progress document, with the fields the collection *)
(* reads.  A Python list is a sequence, None is None, a value x is         *)
(* Some(x); current_coin_progress = {} is EmptyCoinProgress.               *)
(* completed_intervals / failed_intervals map a coin to its list; a coin   *)
(* without a key reads as [] (.get(symbol, [])).                           *)
(***************************************************************************)
RunCoins == <<"BTCUSDT", "ETHUSDT">>

RunIntervals == <<"1m", "1M">>

Range(s) == {s[k] : k \in DOMAIN s}

AllUnits == Range(RunCoins) \X Range(RunIntervals)

EmptyCoinProgress ==
    [present |-> FALSE, completed_intervals |-> <<>>, failed_intervals |-> <<>>,
     current_interval |-> None]

create_default_progress ==
    [completed_coins |-> <<>>, current_coin |-> None,
     current_coin_progress |-> EmptyCoinProgress,
     completed_intervals |-> [c \in Range(RunCoins) |-> <<>>],
     failed_coins |-> <<>>,
     failed_intervals |-> [c \in Range(RunCoins) |-> <<>>]]

AppendNew(list, x) == IF x \in Range(list) THEN list ELSE Append(list, x)

Remove(list, x) == SelectSeq(list, LAMBDA y : y # x)

start_coin_collection(p, symbol) ==
    [p EXCEPT !.current_coin = Some(symbol),
              !.current_coin_progress =
                  [present |-> TRUE, completed_intervals |-> <<>>,
                   failed_intervals |-> <<>>, current_interval |-> None]]

complete_coin_collection(p, symbol) ==
    [p EXCEPT !.completed_coins = AppendNew(@, symbol),
              !.failed_coins = Remove(@, symbol),
              !.current_coin = None,
              !.current_coin_progress = EmptyCoinProgress]

fail_coin_collection(p, symbol) ==
    [p EXCEPT !.failed_coins = AppendNew(@, symbol),
              !.current_coin = None,
              !.current_coin_progress = EmptyCoinProgress]

start_interval_collection(p, symbol, interval) ==
    [p EXCEPT !.current_coin_progress.current_interval = Some(interval)]

complete_interval_collection(p, symbol, interval) ==
    [p EXCEPT !.completed_intervals[symbol] = AppendNew(@, interval),
              !.failed_intervals[symbol] = Remove(@, interval),
              !.current_coin_progress.completed_intervals = Append(@, interval),
              !.current_coin_progress.current_interval = None]

fail_interval_collection(p, symbol, interval) ==
    [p EXCEPT !.failed_intervals[symbol] = AppendNew(@, interval),
              !.current_coin_progress.failed_intervals = Append(@, interval),
              !.current_coin_progress.current_interval = None]

\* [x for x in all if x not in completed and x not in failed], then the
\* current one inserted in front when it is set and not in the list
Remaining(all, completed, failed, current) ==
    LET remaining == SelectSeq(all, LAMBDA x : x \notin Range(completed) /\ x \notin Range(failed))
    IN IF current.some /\ current.val \notin Range(remaining)
       THEN <<current.val>> \o remaining
       ELSE remaining

get_remaining_coins(p, all_coins) ==
    Remaining(all_coins, p.completed_coins, p.failed_coins, p.current_coin)

\* (a loop that would give up after its first interval)
FirstRemainingOnly(p, symbol, all_intervals) ==
    Take(Remaining(all_intervals, p.completed_intervals[symbol], p.failed_intervals[symbol],
                   p.current_coin_progress.current_interval), 1)

get_remaining_intervals(p, symbol, all_intervals) ==
    Remaining(all_intervals, p.completed_intervals[symbol], p.failed_intervals[symbol],
              p.current_coin_progress.current_interval)

(***************************************************************************)
(* The progress file.  save_progress opens it with mode 'w', which empties *)
(* it, and json.dump then writes the document; until the write has         *)
(* finished the file holds no complete document ("torn").  json.load of a  *)
(* finished file gives back the document that was dumped (strings, lists   *)
(* and None survive the round trip unchanged).                             *)
(***************************************************************************)
FileAbsent == [kind |-> "absent", doc |-> create_default_progress]

FileTorn == [kind |-> "torn", doc |-> create_default_progress]

FileOf(p) == [kind |-> "doc", doc |-> p]

\* load_progress, the value it returns
load_progress(f) ==
    IF f.kind = "doc" THEN f.doc ELSE create_default_progress

(***************************************************************************)
(* SpecRate: the threads of collect_all_data_for_symbol_parallel, each     *)
(* running get_historical_data_batch for one interval of the symbol.  Time *)
(* advances in ticks of the length of the loop's time.sleep(0.05).  A      *)
(* request is in flight for at least MinLatency ticks.  The only pacing in *)
(* the loop is that sleep, and the except branch skips it; _rate_limit is  *)
(* not called on this path.                                                *)
(***************************************************************************)
BatchSleepTicks == BatchSleepMs \div BatchSleepMs

OneSecond == 1000 \div BatchSleepMs

ThreadIds == 1..Workers

\* the measured window: opened by a request, OneSecond ticks long, counting
\* the requests issued while it is open
Observe(w, start) ==
    IF ~w.open THEN (IF start THEN [open |-> TRUE, age |-> 0, count |-> 1] ELSE w)
    ELSE IF w.age < OneSecond THEN [w EXCEPT !.count = @ + 1]
    ELSE w

RateInit ==
    /\ tables = [t \in CreatedTables |-> {}]
    /\ status = {}
    /\ lastVals = [t \in CreatedTables |-> [ts \in Timestamps |-> {}]]
    /\ dbop = NoOp
    /\ held = {}
    /\ pg = PageIdle
    /\ RunIdle
    /\ GapIdle
    /\ PoolIdle
    /\ CkIdle
    /\ LimIdle
    /\ thr \in [ThreadIds -> {[pc |-> "request", left |-> n, nap |-> 0] : n \in 1..MaxWindows}]
    /\ win = WinIdle

\* while current_start < end_time: ... requests.get(url, params=params, timeout=30)
ThreadRequest ==
    \E w \in ThreadIds, start \in BOOLEAN :
        /\ thr[w].pc = "request"
        /\ ~win.open \/ ~start
        /\ thr' = [thr EXCEPT ![w].pc = "inflight", ![w].nap = MinLatency]
        /\ win' = Observe(win, start)
        /\ UNCHANGED <<dbVars, pageVars, runVars, gapVars, poolVars, ckVars, limVars>>

AfterWindow(t) == IF t.left = 1 THEN "done" ELSE "request"

\* the answer arrives; the cursor moves on; time.sleep(0.05)
ThreadResponse ==
    \E w \in ThreadIds :
        /\ thr[w].pc = "inflight" /\ thr[w].nap = 0
        /\ thr' = [thr EXCEPT ![w].pc = "sleep", ![w].nap = BatchSleepTicks]
        /\ UNCHANGED <<win, dbVars, pageVars, runVars, gapVars, poolVars, ckVars, limVars>>

\* the sleep is over: next iteration of the loop, or return
ThreadWake ==
    \E w \in ThreadIds :
        /\ thr[w].pc = "sleep" /\ thr[w].nap = 0
        /\ thr' = [thr EXCEPT ![w].pc = AfterWindow(thr[w]), ![w].left = @ - 1]
        /\ UNCHANGED <<win, dbVars, pageVars, runVars, gapVars, poolVars, ckVars, limVars>>

\* except Exception: current_start = current_end; continue  (no sleep)
ThreadRequestRaises ==
    \E w \in ThreadIds :
        /\ thr[w].pc = "inflight" /\ thr[w].nap = 0
        /\ thr' = [thr EXCEPT ![w].pc = AfterWindow(thr[w]), ![w].left = @ - 1]
        /\ UNCHANGED <<win, dbVars, pageVars, runVars, gapVars, poolVars, ckVars, limVars>>

\* one tick of time passes for every thread and for the measured window
Tick ==
    /\ thr' = [w \in ThreadIds |-> [thr[w] EXCEPT !.nap = IF @ > 0 THEN @ - 1 ELSE 0]]
    /\ win' = IF win.open /\ win.age < OneSecond THEN [win EXCEPT !.age = @ + 1] ELSE win
    /\ UNCHANGED <<dbVars, pageVars, runVars, gapVars, poolVars, ckVars, limVars>>

RateNext == ThreadRequest \/ ThreadResponse \/ ThreadWake \/ ThreadRequestRaises \/ Tick

SpecRate == RateInit /\ [][RateNext]_vars

(***************************************************************************)
(* C9  Rate ceiling: for any number of units fetched concurrently, the     *)
(* number of provider requests issued in any one-second window never       *)
(* exceeds max_requests_per_second.                                        *)
(***************************************************************************)
C9_RateCeiling == win.open => win.count <= max_requests_per_second


(***************************************************************************)
(* SpecRun: processes that run collect_all_coins_all_data (--all) or       *)
(* reset_progress (--reset), one after another.  A process can be killed   *)
(* at any step; a kill loses the memory of the process, the database and   *)
(* the progress file stay as they are.  Every transition of the tracker    *)
(* ends in save_progress, which is two steps: the open that empties the    *)
(* file, and the end of the write.                                         *)
(***************************************************************************)
DeadRun(n) ==
    [pc |-> "dead", n |-> n, ret |-> "", remaining_coins |-> <<>>, symbol |-> "",
     remaining_intervals |-> <<>>, interval |-> "", all_data |-> {}, df |-> <<>>]

CompletedUnits(p) == {u \in AllUnits : u[2] \in Range(p.completed_intervals[u[1]])}

FailedUnits(p) == {u \in AllUnits : u[2] \in Range(p.failed_intervals[u[1]])}

\* what get_historical_data can return: an ascending frame of candles
\* (a local that is not read again before it is assigned is reset to its
\* initial value in the actions below)
Frames == {f \in SeqsUpTo(Timestamps, MaxBatch) : f # <<>> /\ f = SortAsc(Range(f))}

\* data_list: the candles of the frame, carrying the values of their resolution
DataOf(interval, df) == [k \in DOMAIN df |-> [timestamp |-> df[k], value |-> interval]]

RunInit ==
    /\ tables = [t \in CreatedTables |-> {}]
    /\ status = {}
    /\ lastVals = [t \in CreatedTables |-> [ts \in Timestamps |-> {}]]
    /\ dbop = NoOp
    /\ held = {}
    /\ pg = PageIdle
    /\ thr = <<>>
    /\ win = WinIdle
    /\ progress = create_default_progress
    /\ file = FileAbsent
    /\ run = DeadRun(0)
    /\ GapIdle
    /\ PoolIdle
    /\ CkIdle
    /\ LimIdle
    /\ hist = [savedDone |-> {}, savedFailed |-> {}, loadDone |-> {}, loadFailed |-> {},
               failRec |-> {}, stored |-> [u \in AllUnits |-> {}],
               startFile |-> FileAbsent]

\* a transition of the tracker: the document is changed in memory and
\* save_progress opens the file for writing
BeginSave(p, r, ret) ==
    /\ progress' = p
    /\ file' = FileTorn
    /\ run' = [r EXCEPT !.pc = "saving", !.ret = ret]

RunFrame == UNCHANGED <<dbVars, pageVars, rateVars, gapVars, poolVars, ckVars, limVars>>

\* ProgressTracker.__init__: self.progress = self.load_progress()
Start ==
    /\ run.pc = "dead" /\ run.n < MaxRuns
    /\ progress' = load_progress(file)
    /\ file' = IF file.kind = "absent" THEN FileTorn ELSE file
    /\ run' = [DeadRun(run.n + 1) EXCEPT
                  !.pc = IF file.kind = "absent" THEN "saving" ELSE "loaded",
                  !.ret = "loaded"]
    /\ hist' = [hist EXCEPT !.loadDone = hist.savedDone, !.loadFailed = hist.savedFailed]
    /\ RunFrame

\* json.dump has written the whole document and the file is closed
FinishSave ==
    /\ run.pc = "saving"
    /\ file' = FileOf(progress)
    /\ run' = [run EXCEPT !.pc = run.ret, !.ret = ""]
    /\ hist' = [hist EXCEPT !.savedDone = CompletedUnits(progress),
                            !.savedFailed = FailedUnits(progress),
                            !.failRec = @ \cup FailedUnits(progress)]
    /\ UNCHANGED progress
    /\ RunFrame

\* (a reset that would clear the document in memory only)
ResetInMemoryOnly ==
    /\ run.pc = "loaded"
    /\ progress' = create_default_progress
    /\ run' = [run EXCEPT !.pc = "reset_done"]
    /\ hist' = [hist EXCEPT !.failRec = {}]
    /\ UNCHANGED file
    /\ RunFrame

\* --reset: reset_progress
Reset ==
    /\ run.pc = "loaded"
    /\ BeginSave(create_default_progress, run, "reset_done")
    /\ hist' = [hist EXCEPT !.failRec = {}]
    /\ RunFrame

\* collect_all_coins_all_data: remaining_coins = get_remaining_coins(coins)
BeginRun ==
    /\ run.pc = "loaded"
    /\ run' = [run EXCEPT !.pc = "coin_loop",
                          !.remaining_coins = get_remaining_coins(progress, RunCoins)]
    /\ UNCHANGED <<progress, file, hist>>
    /\ RunFrame

\* for symbol in remaining_coins: start_coin_collection(symbol)
NextCoin ==
    /\ run.pc = "coin_loop" /\ run.remaining_coins # <<>>
    /\ LET symbol == Head(run.remaining_coins)
       IN BeginSave(start_coin_collection(progress, symbol),
                    [run EXCEPT !.symbol = symbol, !.remaining_coins = Tail(@)],
                    "symbol_start")
    /\ UNCHANGED hist
    /\ RunFrame

\* the loop over the coins is over: the function returns, the process ends
RunEnd ==
    /\ run.pc = "coin_loop" /\ run.remaining_coins = <<>>
    /\ run' = [run EXCEPT !.pc = "finished"]
    /\ UNCHANGED <<progress, file, hist>>
    /\ RunFrame

\* collect_all_data_for_symbol_with_progress: all_data = {};
\* remaining_intervals = get_remaining_intervals(symbol, self.intervals)
BeginSymbol ==
    /\ run.pc = "symbol_start"
    /\ run' = [run EXCEPT !.pc = "interval_loop", !.all_data = {},
                          !.remaining_intervals =
                              get_remaining_intervals(progress, run.symbol, RunIntervals)]
    /\ UNCHANGED <<progress, file, hist>>
    /\ RunFrame

\* for interval in remaining_intervals: start_interval_collection(symbol, interval)
NextInterval ==
    /\ run.pc = "interval_loop" /\ run.remaining_intervals # <<>>
    /\ LET interval == Head(run.remaining_intervals)
       IN BeginSave(start_interval_collection(progress, run.symbol, interval),
                    [run EXCEPT !.interval = interval, !.remaining_intervals = Tail(@)],
                    "fetch")
    /\ UNCHANGED hist
    /\ RunFrame

\* df = get_historical_data(...); not df.empty: all_data[interval] = df
FetchData ==
    /\ run.pc = "fetch"
    /\ \E df \in Frames :
          run' = [run EXCEPT !.pc = "store", !.df = df, !.all_data = @ \cup {run.interval}]
    /\ UNCHANGED <<progress, file, hist>>
    /\ RunFrame

\* df.empty (no candle, or a request failed): fail_interval_collection
FetchEmpty ==
    /\ run.pc = "fetch"
    /\ BeginSave(fail_interval_collection(progress, run.symbol, run.interval), run,
                 "interval_loop")
    /\ UNCHANGED hist
    /\ RunFrame

\* save_price_data_to_coin_table(symbol, interval, data_list) commits
StoreCommits ==
    /\ run.pc = "store"
    /\ LET data == DataOf(run.interval, run.df)
           res == SaveResult([tables |-> tables, status |-> status],
                             run.symbol, run.interval, data, 0)
       IN /\ ~res.raised
          /\ tables' = res.db.tables
          /\ status' = res.db.status
          /\ hist' = [hist EXCEPT !.stored[<<run.symbol, run.interval>>] = Range(data)]
    /\ run' = [run EXCEPT !.pc = "stored", !.df = <<>>]
    /\ UNCHANGED <<progress, file, lastVals, dbop, pageVars, rateVars, gapVars, poolVars, ckVars, limVars>>

\* save_price_data_to_coin_table raises: except Exception: fail_interval_collection
StoreRaises ==
    /\ run.pc = "store"
    /\ LET data == DataOf(run.interval, run.df)
       IN \E fault \in 1..(Len(data) + 1) :
             LET res == SaveResult([tables |-> tables, status |-> status],
                                   run.symbol, run.interval, data, fault)
             IN /\ res.raised
                /\ tables' = res.db.tables
                /\ status' = res.db.status
    /\ BeginSave(fail_interval_collection(progress, run.symbol, run.interval),
                 [run EXCEPT !.df = <<>>], "interval_loop")
    /\ UNCHANGED <<hist, lastVals, dbop, pageVars, rateVars, gapVars, poolVars, ckVars, limVars>>

\* after the store: complete_interval_collection(symbol, interval)
CompleteInterval ==
    /\ run.pc = "stored"
    /\ BeginSave(complete_interval_collection(progress, run.symbol, run.interval), run,
                 "interval_loop")
    /\ UNCHANGED hist
    /\ RunFrame

\* after the intervals: if symbol_data: complete_coin_collection
\* else: fail_coin_collection
SymbolDone ==
    /\ run.pc = "interval_loop" /\ run.remaining_intervals = <<>>
    /\ BeginSave(IF run.all_data # {} THEN complete_coin_collection(progress, run.symbol)
                 ELSE fail_coin_collection(progress, run.symbol),
                 [run EXCEPT !.all_data = {}, !.interval = ""], "coin_loop")
    /\ UNCHANGED hist
    /\ RunFrame

\* the process is killed or interrupted by the operator
Kill ==
    /\ run.pc \notin {"dead", "finished", "reset_done", "status_done"}
    /\ run' = DeadRun(run.n)
    /\ progress' = create_default_progress
    /\ UNCHANGED <<file, hist>>
    /\ RunFrame

\* the process ends after its command has returned
Exit ==
    /\ run.pc \in {"finished", "reset_done", "status_done"}
    /\ run' = DeadRun(run.n)
    /\ progress' = create_default_progress
    /\ UNCHANGED <<file, hist>>
    /\ RunFrame

RunNext ==
    \/ Start \/ FinishSave \/ Reset \/ BeginRun \/ NextCoin \/ RunEnd \/ BeginSymbol
    \/ NextInterval \/ FetchData \/ FetchEmpty \/ StoreCommits \/ StoreRaises
    \/ CompleteInterval \/ SymbolDone \/ Kill \/ Exit

SpecRun == RunInit /\ [][RunNext]_vars

(***************************************************************************)
(* SpecRunLive: the same processes when none of them is killed.  Every     *)
(* process that can take a step eventually takes one.                      *)
(***************************************************************************)
RunLiveNext ==
    \/ Start \/ FinishSave \/ Reset \/ BeginRun \/ NextCoin \/ RunEnd \/ BeginSymbol
    \/ NextInterval \/ FetchData \/ FetchEmpty \/ StoreCommits \/ StoreRaises
    \/ CompleteInterval \/ SymbolDone \/ Exit

SpecRunLive == RunInit /\ [][RunLiveNext]_vars /\ WF_vars(RunLiveNext)

(***************************************************************************)
(* SpecStatus: the same processes, and processes started with --status:    *)
(* main builds the collector, whose constructor builds the tracker, and    *)
(* prints the summary.  hist.startFile is the progress file as the status  *)
(* process found it.                                                       *)
(***************************************************************************)
\* --status: HistoricalDataCollector(...) -> ProgressTracker() -> load_progress
StatusStart ==
    /\ run.pc = "dead" /\ run.n < MaxRuns
    /\ progress' = load_progress(file)
    /\ file' = IF file.kind = "absent" THEN FileTorn ELSE file
    /\ run' = [DeadRun(run.n + 1) EXCEPT
                  !.pc = IF file.kind = "absent" THEN "saving" ELSE "status_loaded",
                  !.ret = "status_loaded"]
    /\ hist' = [hist EXCEPT !.loadDone = hist.savedDone, !.loadFailed = hist.savedFailed,
                            !.startFile = file]
    /\ RunFrame

\* print_progress_summary: get_progress_summary reads self.progress, print writes stdout
Status ==
    /\ run.pc = "status_loaded"
    /\ run' = [run EXCEPT !.pc = "status_done"]
    /\ UNCHANGED <<progress, file, hist>>
    /\ RunFrame

StatusNext == RunLiveNext \/ StatusStart \/ Status

SpecStatus == RunInit /\ [][StatusNext]_vars

(***************************************************************************)
(* SpecRunOnce: one all-units run, started on a machine without a progress *)
(* file and not killed: python scripts/collect_historical_data.py --all    *)
(***************************************************************************)
FirstStart == run.n = 0 /\ Start

RunOnceNext ==
    \/ FirstStart \/ FinishSave \/ BeginRun \/ NextCoin \/ RunEnd \/ BeginSymbol
    \/ NextInterval \/ FetchData \/ FetchEmpty \/ StoreCommits \/ StoreRaises
    \/ CompleteInterval \/ SymbolDone \/ Exit

SpecRunOnce == RunInit /\ [][RunOnceNext]_vars /\ WF_vars(RunOnceNext)

\* the unit the process is fetching or storing
AtWork == run.pc \in {"fetch", "store", "stored"}

WorkedUnit == <<run.symbol, run.interval>>

RowsOf(u) == tables[Resolve(TableName(u[1], u[2]))]

HasStatus(u) == \E r \in status : r.symbol = u[1] /\ r.interval = u[2]

(***************************************************************************)
(* C1  Resume correctness: a process started after the run was killed      *)
(* issues fetches and stores only for units that are neither completed nor *)
(* failed in the progress recorded by the last finished save, and the rows *)
(* stored by the units recorded completed stay in their tables unchanged.  *)
(***************************************************************************)
C1_ResumeCorrect ==
    /\ AtWork => WorkedUnit \notin (hist.loadDone \cup hist.loadFailed)
    /\ run.pc # "dead" => \A u \in hist.loadDone : hist.stored[u] \subseteq RowsOf(u)

(***************************************************************************)
(* C3  No false COMPLETED: in every reachable state, also after a kill at  *)
(* any step, a unit listed in completed_intervals (in the memory of the    *)
(* process or in the progress file) has the candles it fetched committed   *)
(* in its table and has a data_collection_status row.                      *)
(***************************************************************************)
C3_NoFalseCompleted ==
    \A u \in CompletedUnits(progress) \cup CompletedUnits(file.doc) :
        /\ HasStatus(u)
        /\ hist.stored[u] # {}
        /\ hist.stored[u] \subseteq RowsOf(u)

(***************************************************************************)
(* C5  The progress document never loses a unit: the progress a process    *)
(* has loaded contains every completed and every failed unit of the last   *)
(* save that finished before the process started.                          *)
(***************************************************************************)
C5_NoLostUnit ==
    run.pc = "loaded" =>
        /\ hist.loadDone \subseteq CompletedUnits(progress)
        /\ hist.loadFailed \subseteq FailedUnits(progress)

(***************************************************************************)
(* C10  A unit recorded as failed by a finished save is not fetched again  *)
(* by any run until reset_progress is called.                              *)
(***************************************************************************)
C10_FailedNotFetchedAgain ==
    run.pc = "fetch" => WorkedUnit \notin hist.failRec


(***************************************************************************)
(* SpecGap: collect_missing_data for a unit that has been collected.  Time *)
(* is in milliseconds.  A collection at time now stores the candles up to  *)
(* the one that is open at now, so last_collected_timestamp becomes the    *)
(* open time of the current bucket of the unit's resolution.               *)
(* collect_missing_data is a method of HistoricalDataCollector only, and   *)
(* get_historical_data_batch, which it calls, is a method of               *)
(* FastHistoricalDataCollector only; the --missing entry points construct  *)
(* a FastHistoricalDataCollector.                                          *)
(***************************************************************************)
\* milliseconds of one candle of the resolution
BucketMs(interval) == IF interval = "1h" THEN 60 * 60 * 1000 ELSE 60 * 1000

GapUnits == {<<"BTCUSDT", "1m">>, <<"BTCUSDT", "1h">>}

GapEpoch == 2 * BucketMs("1h")

Instants ==
    {GapEpoch + d : d \in {0, 1, MinGapMs - 1, MinGapMs, MinGapMs + 1,
                           BucketMs("1h") - 1, BucketMs("1h"), BucketMs("1h") + 1,
                           BucketMs("1h") + MinGapMs + 1}}

Methods(class) ==
    IF class = "HistoricalDataCollector"
    THEN {"get_historical_data", "collect_missing_data", "collect_all_missing_data"}
    ELSE {"get_historical_data_batch", "collect_all_data_for_symbol_parallel"}

GapQuiet(now) ==
    [now |-> now, kind |-> "none", unit |-> <<"", "">>, class |-> "", immediate |-> FALSE,
     last |-> 0, start_time |-> 0, end_time |-> 0, raised |-> FALSE,
     too_short |-> FALSE, fetch_called |-> FALSE, requests |-> 0]

GapInit ==
    /\ tables = [t \in CreatedTables |-> {}]
    /\ status = {}
    /\ lastVals = [t \in CreatedTables |-> [ts \in Timestamps |-> {}]]
    /\ dbop = NoOp
    /\ held = {}
    /\ pg = PageIdle
    /\ thr = <<>>
    /\ win = WinIdle
    /\ RunIdle
    /\ gap = GapQuiet(GapEpoch)
    /\ PoolIdle
    /\ CkIdle
    /\ LimIdle

GapFrame == UNCHANGED <<lastVals, dbop, pageVars, rateVars, runVars, poolVars, ckVars, limVars>>

\* time passes
GapTick ==
    /\ \E t \in Instants : t > gap.now /\ gap' = GapQuiet(t)
    /\ UNCHANGED <<tables, status>>
    /\ GapFrame

\* the unit is collected successfully at gap.now
GapCollected ==
    \E u \in GapUnits :
        LET T == gap.now - (gap.now % BucketMs(u[2]))
            res == SaveResult([tables |-> tables, status |-> status], u[1], u[2],
                              <<[timestamp |-> T, value |-> "a"]>>, 0)
        IN /\ tables' = res.db.tables
           /\ status' = res.db.status
           /\ gap' = [GapQuiet(gap.now) EXCEPT !.kind = "collected", !.unit = u, !.last = T]
           /\ GapFrame

\* collector.collect_missing_data(symbol, interval) on a collector of the class
CollectMissing(class, u) ==
    LET p == get_missing_data_period(status, u[1], u[2], gap.now, gap.now)
        defined == "collect_missing_data" \in Methods(class)
        too_short == p.end_time - p.start_time < MinGapMs
        fetch_called == defined /\ ~too_short
        fetches == fetch_called /\ "get_historical_data_batch" \in Methods(class)
    IN /\ get_last_collected_timestamp(status, u[1], u[2]).some
       /\ gap' = [GapQuiet(gap.now) EXCEPT
                     !.kind = "missing", !.unit = u, !.class = class,
                     !.immediate = (gap.kind = "collected" /\ gap.unit = u),
                     !.last = get_last_collected_timestamp(status, u[1], u[2]).val,
                     !.start_time = p.start_time, !.end_time = p.end_time,
                     !.raised = ~defined \/ (fetch_called /\ ~fetches),
                     !.too_short = defined /\ too_short,
                     !.fetch_called = fetch_called,
                     !.requests = IF fetches THEN 1 ELSE 0]
       /\ UNCHANGED <<tables, status>>
       /\ GapFrame

\* the method called on a HistoricalDataCollector
MissingOnHistorical == \E u \in GapUnits : CollectMissing("HistoricalDataCollector", u)

\* --missing: collect_missing_data_for_single_coin on a FastHistoricalDataCollector
MissingOnFast == \E u \in GapUnits : CollectMissing("FastHistoricalDataCollector", u)

GapNext == GapTick \/ GapCollected \/ MissingOnHistorical \/ MissingOnFast

SpecGap == GapInit /\ [][GapNext]_vars

(***************************************************************************)
(* C11  Re-running a unit immediately after its successful collection      *)
(* issues zero provider requests, for every resolution: no missing range   *)
(* is reported for it, so the fetch is not even called.                    *)
(***************************************************************************)
C11_NoRefetchWhenCurrent ==
    (gap.kind = "missing" /\ gap.immediate) => gap.requests = 0 /\ ~gap.fetch_called

(***************************************************************************)
(* C12  Gap suppression is per resolution: collect_missing_data of a unit  *)
(* with last_collected_timestamp T issues no fetch when [T + 1, now] is    *)
(* shorter than one bucket of the unit's resolution and issues a fetch     *)
(* when it is at least one bucket long.                                    *)
(***************************************************************************)
C12_SuppressedBelowOneBucket ==
    gap.kind = "missing" =>
        IF gap.now - (gap.last + 1) < BucketMs(gap.unit[2])
        THEN gap.requests = 0 /\ ~gap.fetch_called
        ELSE gap.requests > 0


C15_TransientFailureRetried ==
    (pg.mode = "plain" /\ Returned /\ pg.raised = 1) =>
        {t \in InRange : t < pg.end_time} \subseteq Range(pg.df)


(***************************************************************************)
(* C16  Failure isolation: in an all-units run that is not killed, a fetch *)
(* or store failure of one unit does not keep the other pending units from *)
(* being attempted: the run reaches its end, and at its end every unit of  *)
(* the universe is either completed or failed.                             *)
(***************************************************************************)
C16_FailureIsolation ==
    /\ [](run.pc = "finished" =>
            AllUnits \subseteq (CompletedUnits(progress) \cup FailedUnits(progress)))
    /\ (run.pc = "coin_loop" ~> run.pc = "finished")

\* a run has ended in which the first unit failed and the last one was completed
C16_Witness ==
    /\ run.pc = "finished"
    /\ <<RunCoins[1], RunIntervals[1]>> \in FailedUnits(progress)
    /\ <<RunCoins[Len(RunCoins)], RunIntervals[Len(RunIntervals)]>> \in CompletedUnits(progress)


(***************************************************************************)
(* C17  Reset clears everything: when reset_progress has returned, the     *)
(* completed lists, the failed lists and the in-flight coin and interval   *)
(* are empty in the tracker's memory and in the document of the progress   *)
(* file, and the pending coins and intervals computed from either are the  *)
(* whole universe.                                                         *)
(***************************************************************************)
Cleared(p) ==
    /\ p.completed_coins = <<>> /\ p.failed_coins = <<>>
    /\ CompletedUnits(p) = {} /\ FailedUnits(p) = {}
    /\ ~p.current_coin.some /\ ~p.current_coin_progress.current_interval.some
    /\ get_remaining_coins(p, RunCoins) = RunCoins
    /\ \A c \in Range(RunCoins) : get_remaining_intervals(p, c, RunIntervals) = RunIntervals

C18_StatusHasNoSideEffects ==
    run.pc = "status_done" =>
        /\ file = hist.startFile
        /\ progress = load_progress(hist.startFile)


(***************************************************************************)
(* C19  One partition per unit: a store for one unit of the collector's    *)
(* universe (which holds both '1m' and '1M') leaves the rows of every      *)
(* other unit's table and every other unit's status row as they were.      *)
(***************************************************************************)
C19_OnePartitionPerUnit ==
    [][\A u \in DbUnits :
          (dbop'.kind = "store" /\ dbop'.unit # u) =>
              /\ RowsOf(u)' = RowsOf(u)
              /\ get_last_collected_timestamp(status', u[1], u[2])
                    = get_last_collected_timestamp(status, u[1], u[2])]_vars


(***************************************************************************)
(* SpecPool: collect_all_data_for_symbol_parallel.  The main thread        *)
(* submits one call of get_historical_data_batch per interval to a         *)
(* ThreadPoolExecutor(max_workers=8) (here: Workers).  submit puts the     *)
(* work item on the executor's queue and starts a thread while fewer than  *)
(* max_workers exist; every thread takes one item at a time from the queue *)
(* and runs it to its end.  Inside an item the requests are synchronous:   *)
(* requests.get returns before the loop goes on.                            *)
(***************************************************************************)
CollectorIntervals ==
    <<"1m", "3m", "5m", "15m", "30m", "1h", "2h", "4h", "6h", "8h", "12h",
      "1d", "3d", "1w", "1M">>

PoolIntervals == Take(CollectorIntervals, MaxPoolUnits)

IdleThread == [pc |-> "idle", unit |-> "", left |-> 0]

Busy(p) == {i \in DOMAIN p.w : p.w[i].pc # "idle"}

\* (an executor that would start a thread for every item)
AlwaysSpawn(p) == {Append(p.w, IdleThread)}

\* the threads after a submit: a new one only below max_workers; an executor
\* that finds an idle thread may do without a new one
adjust_thread_count(p) ==
    {w \in {p.w, Append(p.w, IdleThread)} :
        /\ Len(w) <= Workers
        /\ (w = p.w) => (Len(p.w) = Workers \/ Busy(p) # DOMAIN p.w)}

PoolInit ==
    /\ tables = [t \in CreatedTables |-> {}]
    /\ status = {}
    /\ lastVals = [t \in CreatedTables |-> [ts \in Timestamps |-> {}]]
    /\ dbop = NoOp
    /\ held = {}
    /\ pg = PageIdle
    /\ thr = <<>>
    /\ win = WinIdle
    /\ RunIdle
    /\ GapIdle
    /\ CkIdle
    /\ LimIdle
    /\ pool = [next |-> 1, queue |-> <<>>, w |-> <<>>,
               out |-> [i \in Range(PoolIntervals) |-> 0], done |-> {}]

PoolFrame == UNCHANGED <<dbVars, pageVars, rateVars, runVars, gapVars, ckVars, limVars>>

\* executor.submit(self.get_historical_data_batch, symbol, interval, ...)
Submit ==
    /\ pool.next <= Len(PoolIntervals)
    /\ \E w \in adjust_thread_count(pool) :
          pool' = [pool EXCEPT !.next = @ + 1,
                               !.queue = Append(@, PoolIntervals[pool.next]),
                               !.w = w]
    /\ PoolFrame

\* a thread of the pool takes the next work item
WorkerTake ==
    \E i \in DOMAIN pool.w, n \in 1..MaxRequests :
        /\ pool.w[i].pc = "idle" /\ pool.queue # <<>>
        /\ pool' = [pool EXCEPT !.queue = Tail(@),
                                !.w[i] = [pc |-> "request", unit |-> Head(pool.queue),
                                          left |-> n]]
        /\ PoolFrame

\* get_historical_data_batch: response = requests.get(url, params=params, timeout=30) is sent
WorkerRequest ==
    \E i \in DOMAIN pool.w :
        /\ pool.w[i].pc = "request"
        /\ pool' = [pool EXCEPT !.w[i].pc = "inflight",
                                !.out[pool.w[i].unit] = @ + 1]
        /\ PoolFrame

\* the answer (or the exception) is there: next window, or the item returns
WorkerResponse ==
    \E i \in DOMAIN pool.w :
        /\ pool.w[i].pc = "inflight"
        /\ pool' = [pool EXCEPT
                      !.out[pool.w[i].unit] = @ - 1,
                      !.w[i] = IF pool.w[i].left = 1 THEN IdleThread
                               ELSE [@ EXCEPT !.pc = "request", !.left = @ - 1],
                      !.done = IF pool.w[i].left = 1 THEN @ \cup {pool.w[i].unit} ELSE @]
        /\ PoolFrame

PoolNext == Submit \/ WorkerTake \/ WorkerRequest \/ WorkerResponse

SpecPool == PoolInit /\ [][PoolNext]_vars

(***************************************************************************)
(* C20  Bounded worker pool: at any moment at most max_workers units have  *)
(* their fetch in flight, no unit is worked by two threads, no unit is     *)
(* taken up again after its fetch has returned, and a unit never has more  *)
(* than one request outstanding.                                           *)
(***************************************************************************)
C20_BoundedPool ==
    /\ Cardinality(Busy(pool)) <= Workers
    /\ \A i, j \in Busy(pool) : i # j => pool.w[i].unit # pool.w[j].unit
    /\ \A i \in Busy(pool) : pool.w[i].unit \notin pool.done
    /\ \A u \in Range(PoolIntervals) : pool.out[u] <= 1

\* the pool is full, every thread has a request outstanding, a unit waits
C20_Witness ==
    /\ Cardinality(Busy(pool)) = Workers
    /\ \A i \in Busy(pool) : pool.w[i].pc = "inflight"
    /\ pool.queue # <<>>

(***************************************************************************)
(* C21  Only the missing range is fetched: when the run has fetched a      *)
(* frame for a unit whose status row holds last_collected_timestamp = T,   *)
(* the frame came from requests with startTime >= T + 1, so it holds no    *)
(* candle at or before T.                                                  *)
(***************************************************************************)
C21_FetchesOnlyMissingRange ==
    (run.pc = "store" /\ HasStatus(WorkedUnit)) =>
        \A t \in Range(run.df) :
            t >= get_last_collected_timestamp(status, run.symbol, run.interval).val + 1

(***************************************************************************)
(* C22  Incremental durability inside a unit: when a request of a fetch    *)
(* has failed and the caller is through with the fetch, the candles that   *)
(* the earlier requests of the fetch returned are rows of the unit's table *)
(* and the unit has a status row.                                          *)
(***************************************************************************)
C22_EarlierWindowsDurable ==
    (pg.pc = "stored" /\ pg.raised > 0 /\ pg.all_data # <<>>) =>
        /\ Range(pg.all_data) \subseteq {r.timestamp : r \in RowsOf(PageUnit)}
        /\ HasStatus(PageUnit)

(***************************************************************************)
(* C23  Progress is persisted at every transition: while the process is    *)
(* between two transitions the document in the progress file is the        *)
(* progress in memory, and a crash loses at most the transition in flight: *)
(* at any moment of a transition (other than a reset) the document a new   *)
(* process would load still holds every completed and every failed unit of *)
(* the transitions that had returned before.                               *)
(***************************************************************************)
BetweenTransitions == run.pc \notin {"saving", "dead"} /\ file.kind = "doc"

C23_PersistedAtEveryTransition ==
    /\ BetweenTransitions => file.doc = progress
    /\ (run.pc = "saving" /\ run.ret # "reset_done") =>
          /\ hist.savedDone \subseteq CompletedUnits(load_progress(file))
          /\ hist.savedFailed \subseteq FailedUnits(load_progress(file))

(***************************************************************************)
(* C24  Unit state machine: in runs with crashes and restarts, no coin is  *)
(* in completed_coins and failed_coins at once, no unit is in              *)
(* completed_intervals and failed_intervals at once, the unit in progress  *)
(* is neither; a step of a process other than a reset adds a unit to       *)
(* completed or failed only when the unit was the one in progress, and     *)
(* removes none; and the progress a restarted process loads holds the      *)
(* completed and failed units of the last save that returned.              *)
(***************************************************************************)
InProgress(p, u) ==
    /\ p.current_coin = Some(u[1])
    /\ p.current_coin_progress.current_interval = Some(u[2])

Terminal(p) == CompletedUnits(p) \cup FailedUnits(p)

OneStateEach(p) ==
    /\ Range(p.completed_coins) \cap Range(p.failed_coins) = {}
    /\ CompletedUnits(p) \cap FailedUnits(p) = {}
    /\ \A u \in AllUnits : InProgress(p, u) => u \notin Terminal(p)

ResetStep == run.pc = "loaded" /\ run'.ret = "reset_done"

C24_StatesAndMoves ==
    /\ OneStateEach(progress') /\ OneStateEach(file'.doc)
    /\ (run.pc # "dead" /\ run'.pc # "dead" /\ ~ResetStep) =>
          /\ \A u \in Terminal(progress') \ Terminal(progress) : InProgress(progress, u)
          /\ CompletedUnits(progress) \subseteq CompletedUnits(progress')
          /\ FailedUnits(progress) \subseteq FailedUnits(progress')

C24_KeptAcrossRestart ==
    run'.pc = "loaded" =>
        /\ hist'.loadDone \subseteq CompletedUnits(progress')
        /\ hist'.loadFailed \subseteq FailedUnits(progress')

C24_UnitStateMachine == [][C24_StatesAndMoves /\ C24_KeptAcrossRestart]_vars

(***************************************************************************)
(* SpecCkpt: two collector processes started on the same machine.  Each    *)
(* has its own ProgressTracker (its own document in memory) and both use   *)
(* trading_bot/data/data_collection_progress.json.  Writer w works the     *)
(* first interval of coin w: start_coin_collection,                        *)
(* start_interval_collection, complete_interval_collection,                *)
(* complete_coin_collection.  A transition changes the writer's document   *)
(* and save_progress opens the file for writing; the write ends later.     *)
(* Nothing in the tracker takes a lock.                                    *)
(***************************************************************************)
Writers == {1, 2}

WriterCoin(w) == RunCoins[w]

WriterUnit(w) == <<RunCoins[w], RunIntervals[1]>>

Transitions ==
    <<"start_coin_collection", "start_interval_collection",
      "complete_interval_collection", "complete_coin_collection">>

Transition(name, p, w) ==
    IF name = "start_coin_collection" THEN start_coin_collection(p, WriterCoin(w))
    ELSE IF name = "start_interval_collection"
         THEN start_interval_collection(p, WriterCoin(w), RunIntervals[1])
    ELSE IF name = "complete_interval_collection"
         THEN complete_interval_collection(p, WriterCoin(w), RunIntervals[1])
    ELSE complete_coin_collection(p, WriterCoin(w))

CkInit ==
    /\ tables = [t \in CreatedTables |-> {}]
    /\ status = {}
    /\ lastVals = [t \in CreatedTables |-> [ts \in Timestamps |-> {}]]
    /\ dbop = NoOp
    /\ held = {}
    /\ pg = PageIdle
    /\ thr = <<>>
    /\ win = WinIdle
    /\ progress = <<>> /\ run = <<>> /\ hist = <<>>
    /\ file \in {FileAbsent, FileOf(create_default_progress)}
    /\ GapIdle
    /\ PoolIdle
    /\ LimIdle
    /\ ck = [w \in Writers |-> [pc |-> "new", step |-> 0, progress |-> create_default_progress]]

CkFrame ==
    UNCHANGED <<dbVars, pageVars, rateVars, progress, run, hist, gapVars, poolVars, limVars>>

\* ProgressTracker(): self.progress = self.load_progress()
CkLoad ==
    \E w \in Writers :
        /\ ck[w].pc = "new"
        /\ ck' = [ck EXCEPT ![w].progress = load_progress(file),
                            ![w].pc = IF file.kind = "absent" THEN "saving" ELSE "ready"]
        /\ file' = IF file.kind = "absent" THEN FileTorn ELSE file
        /\ CkFrame

\* a transition method up to open(self.progress_file, 'w')
CkTransition ==
    \E w \in Writers :
        /\ ck[w].pc = "ready" /\ ck[w].step < Len(Transitions)
        /\ ck' = [ck EXCEPT ![w].progress = Transition(Transitions[ck[w].step + 1], @, w),
                            ![w].step = @ + 1,
                            ![w].pc = "saving"]
        /\ file' = FileTorn
        /\ CkFrame

\* json.dump has written the writer's document; the transition returns
CkFinishSave ==
    \E w \in Writers :
        /\ ck[w].pc = "saving"
        /\ file' = FileOf(ck[w].progress)
        /\ ck' = [ck EXCEPT ![w].pc = IF ck[w].step = Len(Transitions) THEN "done"
                                      ELSE "ready"]
        /\ CkFrame

CkNext == CkLoad \/ CkTransition \/ CkFinishSave

SpecCkpt == CkInit /\ [][CkNext]_vars

(***************************************************************************)
(* C25  Checkpoint writes are mutually exclusive: two writers are never    *)
(* inside a transition's mutate-and-write at the same time, and when both  *)
(* writers have finished, the progress file holds the updates of both.     *)
(***************************************************************************)
C25_CheckpointMutex ==
    /\ ~(ck[1].pc = "saving" /\ ck[2].pc = "saving")
    /\ (ck[1].pc = "done" /\ ck[2].pc = "done") =>
          /\ file.kind = "doc"
          /\ {WriterUnit(1), WriterUnit(2)} \subseteq CompletedUnits(file.doc)
          /\ Range(RunCoins) \subseteq Range(file.doc.completed_coins)

(***************************************************************************)
(* C26  Batch width respects the cap: the window                           *)
(* [current_start, min(current_start + batch_size, end_time)] that         *)
(* get_historical_data_batch is about to send, both ends inclusive at the  *)
(* provider, holds at most 'limit' candle open times of the resolution.    *)
(***************************************************************************)
OpenTimesIn(a, b) == {t \in a..b : t % IntervalMs = 0}

C26_WindowWithinCap ==
    (pg.mode = "batch" /\ pg.pc = "loop" /\ pg.current_start < pg.end_time) =>
        Cardinality(OpenTimesIn(pg.current_start,
                                Min(pg.current_start + calculate_batch_size, pg.end_time)))
            <= RequestLimit

(***************************************************************************)
(* SpecLim: get_historical_data_async run by several coroutines of one     *)
(* event loop (fewer than max_concurrent_requests = 20, so the semaphore   *)
(* never makes one wait).  The loop is one thread: it runs one coroutine   *)
(* until that coroutine awaits.  request_lock is a threading.Lock;         *)
(* 'with self.request_lock' blocks the calling thread while the lock is    *)
(* held.  _rate_limit awaits asyncio.sleep inside the with block, so the   *)
(* coroutine is suspended holding the lock.  holder = 0: the lock is free. *)
(***************************************************************************)
Coroutines == 1..MaxCoroutines

LoopBlocked == \E c \in Coroutines : lim.co[c].pc = "blocked"

LimInit ==
    /\ tables = [t \in CreatedTables |-> {}]
    /\ status = {}
    /\ lastVals = [t \in CreatedTables |-> [ts \in Timestamps |-> {}]]
    /\ dbop = NoOp
    /\ held = {}
    /\ pg = PageIdle
    /\ thr = <<>>
    /\ win = WinIdle
    /\ RunIdle
    /\ GapIdle
    /\ PoolIdle
    /\ CkIdle
    /\ \E n \in [Coroutines -> 1..MaxRequests] :
          lim = [holder |-> 0, request_count |-> 0,
                 co |-> [c \in Coroutines |-> [pc |-> "ready", left |-> n[c]]]]

LimFrame == UNCHANGED <<dbVars, pageVars, rateVars, runVars, gapVars, poolVars, ckVars>>

\* await self._rate_limit(): with self.request_lock: the lock is free;
\* request_count += 1; await asyncio.sleep(...) suspends the coroutine
LimAcquire ==
    \E c \in Coroutines :
        /\ ~LoopBlocked
        /\ lim.co[c].pc = "ready" /\ lim.holder = 0
        /\ lim' = [lim EXCEPT !.holder = c, !.request_count = @ + 1,
                              !.co[c].pc = "sleeping"]
        /\ LimFrame

\* with self.request_lock: the lock is held by a suspended coroutine; the
\* thread of the event loop waits in Lock.acquire
LimBlock ==
    \E c \in Coroutines :
        /\ ~LoopBlocked
        /\ lim.co[c].pc = "ready" /\ lim.holder # 0
        /\ lim' = [lim EXCEPT !.co[c].pc = "blocked"]
        /\ LimFrame

\* the sleep is over and the loop resumes the coroutine: request_count = 0
\* after the long sleep, the with block ends, _rate_limit returns, and the
\* coroutine awaits session.get
LimRelease ==
    \E c \in Coroutines :
        /\ ~LoopBlocked
        /\ lim.co[c].pc = "sleeping"
        /\ lim' = [lim EXCEPT !.holder = 0,
                              !.request_count =
                                  IF @ >= max_requests_per_second THEN 0 ELSE @,
                              !.co[c].pc = "request"]
        /\ LimFrame

\* the response is there: next iteration of the loop, or the fetch returns
LimResponse ==
    \E c \in Coroutines :
        /\ ~LoopBlocked
        /\ lim.co[c].pc = "request"
        /\ lim' = [lim EXCEPT !.co[c] = IF @.left = 1 THEN [pc |-> "done", left |-> 0]
                                        ELSE [pc |-> "ready", left |-> @.left - 1]]
        /\ LimFrame

LimNext == LimAcquire \/ LimBlock \/ LimRelease \/ LimResponse

SpecLim == LimInit /\ [][LimNext]_vars

(***************************************************************************)
(* C27  The shared limiter is deadlock-free: no coroutine blocks the       *)
(* thread of the event loop in 'with self.request_lock' while another      *)
(* coroutine of the loop is suspended holding the lock (from there on no   *)
(* coroutine could run and no call of _rate_limit could return).           *)
(***************************************************************************)
C27_LimiterDeadlockFree == ~LoopBlocked

(***************************************************************************)
(* C28  Coin-level and interval-level progress agree: when                 *)
(* collect_all_coins_all_data has finished a coin and records the result,  *)
(* the coin is in completed_coins exactly if every one of its intervals is *)
(* in completed_intervals, and in failed_coins exactly if not.             *)
(***************************************************************************)
AllIntervalsCompleted(p, symbol) ==
    \A i \in Range(RunIntervals) : <<symbol, i>> \in CompletedUnits(p)

C28_CoinAgreesWithIntervals ==
    (run.pc = "saving" /\ run.ret = "coin_loop") =>
        /\ run.symbol \in Range(progress.completed_coins)
              <=> AllIntervalsCompleted(progress, run.symbol)
        /\ run.symbol \in Range(progress.failed_coins)
              <=> ~AllIntervalsCompleted(progress, run.symbol)

(***************************************************************************)
(* C29  Pagination terminates with a strictly advancing cursor: every      *)
(* iteration of the loops of get_historical_data and                       *)
(* get_historical_data_batch after which the loop goes on has increased    *)
(* current_start; while a loop goes on its cursor is below end_time; the   *)
(* number of requests of a call never exceeds the length of its range; and *)
(* a call that has stopped with its cursor below end_time is a             *)
(* get_historical_data whose last request was answered by an empty list or *)
(* an error.                                                               *)
(***************************************************************************)
C29_CursorAdvancesAndStops ==
    /\ [][(pg.pc = "loop" /\ pg'.pc = "loop" /\ pg' # pg) =>
              pg'.current_start > pg.current_start]_vars
    /\ [](pg.pc = "loop" => pg.current_start < pg.end_time)
    /\ [](pg.calls <= pg.end_time - pg.start_time)
    /\ []((Returned /\ pg.current_start < pg.end_time) =>
              (pg.mode = "plain" /\ pg.calls = pg.data_calls + 1))

\* a call that got a failed request, an empty answer and candles has returned
C29_Witness ==
    /\ pg.mode = "batch" /\ Returned
    /\ pg.raised >= 1 /\ pg.data_calls >= 1
    /\ pg.calls > pg.raised + pg.data_calls

(***************************************************************************)
(* C30  The checkpoint cursor is monotone and exact: over any sequence of  *)
(* stores on a unit, last_collected_timestamp of the unit never decreases, *)
(* and after every step it is the largest timestamp among the rows of the  *)
(* unit's table.                                                           *)
(***************************************************************************)
Cursor(st, u) == get_last_collected_timestamp(st, u[1], u[2])

C30_CursorMonotoneAndExact ==
    [][\A u \in DbUnits :
          /\ Cursor(status, u).some =>
                (Cursor(status', u).some /\ Cursor(status', u).val >= Cursor(status, u).val)
          /\ Cursor(status', u).some =>
                Cursor(status', u).val = MaxOf({r.timestamp : r \in RowsOf(u)'})]_vars

==========================================================================
